---- MODULE Spec2Model ----
(***************************************************************************)
(* Model of the separation explorer's data engine:                         *)
(*   src/src/statistics.py  stats, calc_kpi, select_data                   *)
(*   src/src/datamodel.py   DataModel (snapshot, patches, error overlay,   *)
(*                          selection callback, isotherm loader threads)   *)
(*                                                                         *)
(* Numbers.  Python floats are modelled as fixed-point integers with three *)
(* fractional bits (the integer v stands for v/8); NaN is a value outside  *)
(* the fixed-point range.  With samples that are whole numbers the median, *)
(* the linearly interpolated quartiles and 1.5*IQR are exact in this       *)
(* format; np.std is rounded down to the format's resolution.  Ratios of   *)
(* two floats (sel, psa_W) are kept as reduced fractions with +-inf and    *)
(* NaN, as numpy's float division produces them.                           *)
(***************************************************************************)
EXTENDS Integers, Sequences, FiniteSets, TLC

VARIABLES
    series, result,                     \* stats(): argument and returned triple
    iso_type, t_abs, t_tol, g1, g2,     \* DataModel filter criteria
    lp, p1, p2,                         \* DataModel pressure parameters
    dfs,                                \* DataModel._dfs  (per-material stats cache)
    data,                               \* DataModel.data.data (KPI snapshot)
    selected,                           \* DataModel.data.selected.indices
    errors,                             \* DataModel.errors.data (error overlay)
    g1_iso_sel, g2_iso_sel,             \* curve sets of the two adsorbate slots
    threads,                            \* loader threads started by selection_callback
    ticks,                              \* doc.add_next_tick_callback queue
    raised,                             \* the last handler ended with an exception
    gen,                                \* number of select-a-material calls so far
    events,                             \* number of widget events handled
    budget,                             \* number of widget events a behaviour may hold
    c_cyc                               \* SeparationDash.c_cyc: colours drawn so far

statsVars == <<series, result>>
modelVars == <<iso_type, t_abs, t_tol, g1, g2, lp, p1, p2, dfs, data, selected,
               errors, g1_iso_sel, g2_iso_sel, threads, ticks, raised, gen, events,
               budget, c_cyc>>
vars == <<series, result, iso_type, t_abs, t_tol, g1, g2, lp, p1, p2, dfs, data,
          selected, errors, g1_iso_sel, g2_iso_sel, threads, ticks, raised, gen, events,
               budget, c_cyc>>

-----------------------------------------------------------------------------
(* Fixed-point numbers *)

\* three fractional bits
Unit == 2 * 2 * 2
\* np.nan
NaN == -1000000
None == "None"

\* Python's None where the other values are records (self._dfs, the parsed
\* isotherm, the triple stats has not returned yet)
NoneRec == [none |-> TRUE]

IsNaN(x) == x = NaN

Abs(x) == IF x < 0 THEN -x ELSE x

Sub(a, b) == IF IsNaN(a) \/ IsNaN(b) THEN NaN ELSE a - b
Add(a, b) == IF IsNaN(a) \/ IsNaN(b) THEN NaN ELSE a + b

RECURSIVE Gcd(_, _)
Gcd(a, b) == IF b = 0 THEN a ELSE Gcd(b, a % b)

Sign(x) == IF x > 0 THEN 1 ELSE IF x < 0 THEN -1 ELSE 0

\* A float quotient as a reduced fraction: den > 0 finite, <<+-1, 0>> is
\* +-inf and <<0, 0>> is NaN.
Norm(n, d) ==
    IF d = 0 THEN <<Sign(n), 0>>
    ELSE LET g == Gcd(Abs(n), Abs(d))
             s == Sign(d)
         IN  <<(s * n) \div g, (s * d) \div g>>

FracNaN == <<0, 0>>

\* numpy true division of two floats
Div(a, b) == IF IsNaN(a) \/ IsNaN(b) THEN FracNaN ELSE Norm(a, b)

\* float * float on quotients
Mul(q, r) == Norm(q[1] * r[1], q[2] * r[2])

RECURSIVE ISqrtBin(_, _, _)
ISqrtBin(v, lo, hi) ==
    IF lo >= hi THEN lo
    ELSE LET mid == (lo + hi + 1) \div 2
         IN  IF mid * mid <= v THEN ISqrtBin(v, mid, hi) ELSE ISqrtBin(v, lo, mid - 1)

\* floor of the square root (the search stays below 2^15.5 so that mid * mid
\* fits a 32-bit integer)
ISqrt(v) == ISqrtBin(v, 0, IF v < 46340 THEN v ELSE 46340)

-----------------------------------------------------------------------------
(* statistics.py *)

RECURSIVE SumSeq(_)
SumSeq(s) == IF s = <<>> THEN 0 ELSE Head(s) + SumSeq(Tail(s))

RECURSIVE SumSq(_)
SumSq(s) == IF s = <<>> THEN 0 ELSE Head(s) * Head(s) + SumSq(Tail(s))

\* mutant of dropna: the missing values are kept, as zeros (fillna(0))
dropna_fillna(s) == [i \in 1..Len(s) |-> IF IsNaN(s[i]) THEN 0 ELSE s[i]]

\* series.dropna()
dropna(s) == SelectSeq(s, LAMBDA x : ~IsNaN(x))

RECURSIVE Insert(_, _)
Insert(x, s) ==
    IF s = <<>> THEN <<x>>
    ELSE IF x <= Head(s) THEN <<x>> \o s
    ELSE <<Head(s)>> \o Insert(x, Tail(s))

RECURSIVE sorted(_)
sorted(s) == IF s = <<>> THEN <<>> ELSE Insert(Head(s), sorted(Tail(s)))

\* np.median of a non-empty list
median(s) ==
    LET a == sorted(s)
        n == Len(a)
    IN  IF n % 2 = 1 THEN a[(n + 1) \div 2]
        ELSE (a[n \div 2] + a[n \div 2 + 1]) \div 2

\* np.std (population standard deviation) of a non-empty list
std(s) ==
    LET n == Len(s)
    IN  ISqrt(n * SumSq(s) - SumSeq(s) * SumSeq(s)) \div n

\* np.nanpercentile(a, q, interpolation='linear') for q in {25, 75} on a
\* sorted list: virtual index q/100*(n-1), linear between the neighbours.
percentile(a, q) ==
    LET n   == Len(a)
        k   == q \div 25
        lo  == (k * (n - 1)) \div 4
        r   == (k * (n - 1)) % 4
    IN  IF r = 0 THEN a[lo + 1]
        ELSE a[lo + 1] + ((a[lo + 2] - a[lo + 1]) * r) \div 4

\* the boolean mask of statistics.py line 32
o_rem(no_nan, Q1, Q3) ==
    LET IQR == Q3 - Q1
    IN  SelectSeq(no_nan, LAMBDA x :
            (Q1 - (3 * IQR) \div 2 < x) \/ (x > Q3 + (3 * IQR) \div 2))

\* mutant of stats: the IQR rejection is applied from two samples on
stats_reject_small(s) ==
    LET no_nan == dropna(s)
        size   == Len(no_nan)
    IN  IF size = 0 THEN [size |-> 0, med |-> NaN, err |-> 0]
        ELSE IF size = 1 THEN [size |-> 1, med |-> no_nan[1], err |-> 0]
        ELSE LET Q3  == percentile(sorted(no_nan), 75)
                 Q1  == percentile(sorted(no_nan), 25)
                 rem == o_rem(no_nan, Q1, Q3)
             IN  IF rem = <<>> THEN [size |-> size, med |-> NaN, err |-> NaN]
                 ELSE [size |-> size, med |-> median(rem), err |-> std(rem)]

\* mutant of stats: the count is taken after the outlier rejection
stats_count_kept(s) ==
    LET no_nan == dropna(s)
        size   == Len(no_nan)
    IN  IF size = 0 THEN [size |-> 0, med |-> NaN, err |-> 0]
        ELSE IF size = 1 THEN [size |-> 1, med |-> no_nan[1], err |-> 0]
        ELSE IF size <= 4 THEN [size |-> size, med |-> median(no_nan), err |-> std(no_nan)]
        ELSE LET Q3  == percentile(sorted(no_nan), 75)
                 Q1  == percentile(sorted(no_nan), 25)
                 rem == o_rem(no_nan, Q1, Q3)
             IN  IF rem = <<>> THEN [size |-> 0, med |-> NaN, err |-> NaN]
                 ELSE [size |-> Len(rem), med |-> median(rem), err |-> std(rem)]

stats(s) ==
    LET no_nan == dropna(s)
        size   == Len(no_nan)
    IN  IF size = 0 THEN [size |-> 0, med |-> NaN, err |-> 0]
        ELSE IF size = 1 THEN [size |-> 1, med |-> no_nan[1], err |-> 0]
        ELSE IF size <= 4 THEN [size |-> size, med |-> median(no_nan), err |-> std(no_nan)]
        ELSE LET Q3  == percentile(sorted(no_nan), 75)
                 Q1  == percentile(sorted(no_nan), 25)
                 rem == o_rem(no_nan, Q1, Q3)
             IN  IF rem = <<>> THEN [size |-> size, med |-> NaN, err |-> NaN]
                 ELSE [size |-> size, med |-> median(rem), err |-> std(rem)]

-----------------------------------------------------------------------------
(* Specification of stats() as a pure function over bounded sample lists *)

MaxLen == 5
Samples == {NaN, 1 * Unit, 2 * Unit, 3 * Unit, 4 * Unit, 100 * Unit}

SeqsUpTo(S, n) == UNION {[1..k -> S] : k \in 0..n}

StatsInit ==
    /\ series \in SeqsUpTo(Samples, MaxLen)
    /\ result = NoneRec

CallStats ==
    /\ result = NoneRec
    /\ result' = stats(series)
    /\ UNCHANGED series

StatsNext == CallStats /\ UNCHANGED modelVars

-----------------------------------------------------------------------------
(* The raw dataset (src.datastore.DATASET): read-only rows.  L holds the     *)
(* loading at the tracked pressure buckets 0.5, 1.0, 1.5, 5.0 bar; iso is the     *)
(* row's isotherm reference and ok tells whether load_isotherm decodes it.   *)

Row(m, a, ty, t, k, l, ok) ==
    [mat |-> m, ads |-> a, type |-> ty, t |-> t, kH |-> k, L |-> l, ok |-> ok]

U(x) == x * Unit

DATASET == <<
    Row("M1", "propane", "exp", 298, U(2), <<U(1), U(2), U(3), U(4)>>, FALSE),
    Row("M1", "propane", "exp", 303, U(4), <<U(1), U(4), U(5), U(6)>>, TRUE),
    Row("M1", "propene", "exp", 303, U(8), <<U(2), U(5), U(5), U(6)>>, TRUE),
    Row("M1", "propene", "sim", 303, U(6), <<U(4), U(5), U(7), U(9)>>, FALSE),
    Row("M2", "propane", "sim", 303, NaN,  <<NaN,  U(2), U(2), U(2)>>, TRUE),
    Row("M2", "propene", "exp", 298, U(3), <<U(1), NaN,  U(2), U(3)>>, TRUE),
    Row("M2", "propene", "sim", 338, U(5), <<U(1), U(3), U(3), U(3)>>, TRUE),
    Row("M3", "propane", "exp", 318, U(1), <<U(0), U(1), U(1), U(1)>>, TRUE),
    Row("M3", "propene", "exp", 338, U(2), <<U(1), U(1), U(2), U(2)>>, TRUE) >>

PROBES == {"propane", "propene"}
Types == {None, "exp", "sim"}
TAbs == {303, 333}
TTol == {10, 20}

\* Slider positions (p_slider, wc_slider: multiples of 0.5 bar) the model
\* moves between: the first MaxP of 0.5, 5.0, 1.0 and 1.5 bar.
MaxP == 3
Stops == <<Unit \div 2, 5 * Unit, Unit, Unit + Unit \div 2>>
PVals == {Stops[k] : k \in 1..MaxP}

\* '{0:.1f}'.format(p) for a multiple of 0.5
Fmt(p) == ToString(p \div Unit) \o "." \o ToString(((p % Unit) * 10) \div Unit)

\* the dataset's pressure column names, in column order
PCols == <<"0.5", "1.0", "1.5", "5.0">>
Cols == {"kH"} \cup {PCols[i] : i \in 1..Len(PCols)}

ColIndex(c) == CHOOSE i \in 1..Len(PCols) : PCols[i] = c

Cell(row, c) == IF c = "kH" THEN row.kH ELSE row.L[ColIndex(c)]

MapSeq(s, F(_)) == [i \in 1..Len(s) |-> F(s[i])]

RECURSIVE unique(_)
unique(s) ==
    IF s = <<>> THEN <<>>
    ELSE LET u == unique(SubSeq(s, 1, Len(s) - 1))
             x == s[Len(s)]
         IN  IF \E i \in 1..Len(u) : u[i] = x THEN u ELSE Append(u, x)

Range(s) == {s[i] : i \in 1..Len(s)}

\* data['t'].between(lo, hi), both ends inclusive
between(t, lo, hi) == lo <= t /\ t <= hi

\* calc_kpi on groupby('mat', sort=False): per material, stats of every column
calc_kpi(rows) ==
    [m \in Range(MapSeq(rows, LAMBDA r : r.mat)) |->
        [c \in Cols |->
            stats(MapSeq(SelectSeq(rows, LAMBDA r : r.mat = m), LAMBDA r : Cell(r, c)))]]

select_data(dataset, i_type, tabs, ttol, a1, a2) ==
    LET dft     == SelectSeq(dataset, LAMBDA r :
                       /\ (i_type # None => r.type = i_type)
                       /\ between(r.t, tabs - ttol, tabs + ttol))
        g1_filt == SelectSeq(dft, LAMBDA r : r.ads = a1)
        g2_filt == SelectSeq(dft, LAMBDA r : r.ads = a2)
        common  == Range(MapSeq(g1_filt, LAMBDA r : r.mat))
                       \cap Range(MapSeq(g2_filt, LAMBDA r : r.mat))
        left    == SelectSeq(g1_filt, LAMBDA r : r.mat \in common)
        right   == SelectSeq(g2_filt, LAMBDA r : r.mat \in common)
    IN  IF common = {} THEN NoneRec
        ELSE [index |-> unique(MapSeq(left, LAMBDA r : r.mat)),
              x     |-> calc_kpi(left),
              y     |-> calc_kpi(right)]

\* src.datastore.INITIAL: the cache for the criteria __init__ sets
INITIAL == select_data(DATASET, None, 303, 10, "propane", "propene")

-----------------------------------------------------------------------------
(* datamodel.py: KPI snapshot *)

\* self._dfs[(c + '_x', f)].values : one entry per row of the cache
Column(d, slot, c, f) == [i \in 1..Len(d.index) |-> d[slot][d.index[i]][c][f]]

Zip(a, b, F(_, _)) == [i \in 1..Len(a) |-> F(a[i], b[i])]

Max(a, b) == IF a >= b THEN a ELSE b

gen_data(d, ulp, wp1, wp2) ==
    LET K_nx == Column(d, "x", "kH", "size")
        K_x  == Column(d, "x", "kH", "med")
        K_ny == Column(d, "y", "kH", "size")
        K_y  == Column(d, "y", "kH", "med")
        L_nx == Column(d, "x", Fmt(ulp), "size")
        L_x  == Column(d, "x", Fmt(ulp), "med")
        L_ny == Column(d, "y", Fmt(ulp), "size")
        L_y  == Column(d, "y", Fmt(ulp), "med")
        W_nx == Zip(Column(d, "x", Fmt(wp1), "size"), Column(d, "x", Fmt(wp2), "size"), Max)
        W_x  == Zip(Column(d, "x", Fmt(wp2), "med"), Column(d, "x", Fmt(wp1), "med"), Sub)
        W_ny == Zip(Column(d, "y", Fmt(wp1), "size"), Column(d, "y", Fmt(wp2), "size"), Max)
        W_y  == Zip(Column(d, "y", Fmt(wp2), "med"), Column(d, "y", Fmt(wp1), "med"), Sub)
        sel  == Zip(K_y, K_x, Div)
    IN  [labels |-> d.index,
         sel |-> sel,
         psa_W |-> Zip(Zip(K_y, W_x, Div), sel, Mul),
         K_x |-> K_x, K_y |-> K_y,
         K_nx |-> K_nx, K_ny |-> K_ny, K_n |-> Zip(K_nx, K_ny, +),
         L_x |-> L_x, L_y |-> L_y,
         L_nx |-> L_nx, L_ny |-> L_ny, L_n |-> Zip(L_nx, L_ny, +),
         W_x |-> W_x, W_y |-> W_y,
         W_nx |-> W_nx, W_ny |-> W_ny, W_n |-> Zip(W_nx, W_ny, +)]

\* mutant of patch_data_l: the adsorbate-2 median is read from slot x
patch_data_l_slot(d, ulp) ==
    LET L_nx == Column(d, "x", Fmt(ulp), "size")
        L_x  == Column(d, "x", Fmt(ulp), "med")
        L_ny == Column(d, "y", Fmt(ulp), "size")
        L_y  == Column(d, "x", Fmt(ulp), "med")
    IN  [L_x |-> L_x, L_y |-> L_y,
         L_nx |-> L_nx, L_ny |-> L_ny, L_n |-> Zip(L_nx, L_ny, +)]

patch_data_l(d, ulp) ==
    LET L_nx == Column(d, "x", Fmt(ulp), "size")
        L_x  == Column(d, "x", Fmt(ulp), "med")
        L_ny == Column(d, "y", Fmt(ulp), "size")
        L_y  == Column(d, "y", Fmt(ulp), "med")
    IN  [L_x |-> L_x, L_y |-> L_y,
         L_nx |-> L_nx, L_ny |-> L_ny, L_n |-> Zip(L_nx, L_ny, +)]

\* mutant of patch_data_w: the patch also overwrites the selectivity column
patch_data_w_sel(d, dd, wp1, wp2) ==
    LET W_nx == Zip(Column(d, "x", Fmt(wp1), "size"), Column(d, "x", Fmt(wp2), "size"), Max)
        W_x  == Zip(Column(d, "x", Fmt(wp2), "med"), Column(d, "x", Fmt(wp1), "med"), Sub)
        W_ny == Zip(Column(d, "y", Fmt(wp1), "size"), Column(d, "y", Fmt(wp2), "size"), Max)
        W_y  == Zip(Column(d, "y", Fmt(wp2), "med"), Column(d, "y", Fmt(wp1), "med"), Sub)
    IN  [psa_W |-> Zip(Zip(W_y, W_x, Div), dd.sel, Mul),
         sel |-> Zip(W_y, W_x, Div),
         W_x |-> W_x, W_y |-> W_y,
         W_nx |-> W_nx, W_ny |-> W_ny, W_n |-> Zip(W_nx, W_ny, +)]

patch_data_w(d, dd, wp1, wp2) ==
    LET W_nx == Zip(Column(d, "x", Fmt(wp1), "size"), Column(d, "x", Fmt(wp2), "size"), Max)
        W_x  == Zip(Column(d, "x", Fmt(wp2), "med"), Column(d, "x", Fmt(wp1), "med"), Sub)
        W_ny == Zip(Column(d, "y", Fmt(wp1), "size"), Column(d, "y", Fmt(wp2), "size"), Max)
        W_y  == Zip(Column(d, "y", Fmt(wp2), "med"), Column(d, "y", Fmt(wp1), "med"), Sub)
    IN  [psa_W |-> Zip(Zip(W_y, W_x, Div), dd.sel, Mul),
         W_x |-> W_x, W_y |-> W_y,
         W_nx |-> W_nx, W_ny |-> W_ny, W_n |-> Zip(W_nx, W_ny, +)]

\* ColumnDataSource.patch with (slice(None), values): the named columns are
\* replaced whole, the others are left alone.
patch(src, p) == [k \in DOMAIN src |-> IF k \in DOMAIN p THEN p[k] ELSE src[k]]

-----------------------------------------------------------------------------
(* datamodel.py: error overlay *)

ErrCols == {"labels", "K_x", "K_y", "L_x", "L_y", "W_x", "W_y",
            "K_x0", "K_y0", "K_x1", "K_y1",
            "L_x0", "L_y0", "L_x1", "L_y1",
            "W_x0", "W_y0", "W_x1", "W_y1"}

\* gen_error(indices=None)
gen_error_none == [k \in ErrCols |-> <<>>]

\* [r1, r2, ...] of records of lists -> record of concatenated lists (extend)
RECURSIVE Extend(_, _)
Extend(rows, keys) ==
    IF rows = <<>> THEN [k \in keys |-> <<>>]
    ELSE LET rest == Extend(Tail(rows), keys)
         IN  [k \in keys |-> Head(rows)[k] \o rest[k]]

\* mutant of gen_error_row: the NaN guards of the values look at the y value
\* only
gen_error_row_yonly(d, dd, ulp, wp1, wp2, index) ==
    LET mat   == dd.labels[index]
        kNaN  == IsNaN(dd.K_y[index])
        lNaN  == IsNaN(dd.L_y[index])
        wNaN  == IsNaN(dd.W_y[index])
        kSkip == IsNaN(dd.K_x[index]) \/ kNaN
        lSkip == IsNaN(dd.L_x[index]) \/ lNaN
        wSkip == IsNaN(dd.W_x[index]) \/ wNaN
        K_x   == IF kNaN THEN 0 ELSE dd.K_x[index]
        K_y   == IF kNaN THEN 0 ELSE dd.K_y[index]
        K_ex  == IF kSkip THEN 0 ELSE d.x[mat]["kH"].err
        K_ey  == IF kSkip THEN 0 ELSE d.y[mat]["kH"].err
        L_x   == IF lNaN THEN 0 ELSE dd.L_x[index]
        L_y   == IF lNaN THEN 0 ELSE dd.L_y[index]
        L_ex  == IF lSkip THEN 0 ELSE d.x[mat][Fmt(ulp)].err
        L_ey  == IF lSkip THEN 0 ELSE d.y[mat][Fmt(ulp)].err
        W_x   == IF wNaN THEN 0 ELSE dd.W_x[index]
        W_y   == IF wNaN THEN 0 ELSE dd.W_y[index]
        W_ex  == IF wSkip THEN 0 ELSE Add(d.x[mat][Fmt(wp1)].err, d.x[mat][Fmt(wp2)].err)
        W_ey  == IF wSkip THEN 0 ELSE Add(d.y[mat][Fmt(wp1)].err, d.y[mat][Fmt(wp2)].err)
    IN  [labels |-> <<mat, mat>>,
         K_x |-> <<K_x, K_x>>, K_y |-> <<K_y, K_y>>,
         L_x |-> <<L_x, L_x>>, L_y |-> <<L_y, L_y>>,
         W_x |-> <<W_x, W_x>>, W_y |-> <<W_y, W_y>>,
         K_x0 |-> <<Sub(K_x, K_ex), K_x>>, K_y0 |-> <<K_y, Sub(K_y, K_ey)>>,
         K_x1 |-> <<Add(K_x, K_ex), K_x>>, K_y1 |-> <<K_y, Add(K_y, K_ey)>>,
         L_x0 |-> <<Sub(L_x, L_ex), L_x>>, L_y0 |-> <<L_y, Sub(L_y, L_ey)>>,
         L_x1 |-> <<Add(L_x, L_ex), L_x>>, L_y1 |-> <<L_y, Add(L_y, L_ey)>>,
         W_x0 |-> <<Sub(W_x, W_ex), W_x>>, W_y0 |-> <<W_y, Sub(W_y, W_ey)>>,
         W_x1 |-> <<Add(W_x, W_ex), W_x>>, W_y1 |-> <<W_y, Add(W_y, W_ey)>>]

\* one pass of the loop body of gen_error (lines 319-372)
gen_error_row(d, dd, ulp, wp1, wp2, index) ==
    LET mat   == dd.labels[index]
        kNaN  == IsNaN(dd.K_x[index]) \/ IsNaN(dd.K_y[index])
        lNaN  == IsNaN(dd.L_x[index]) \/ IsNaN(dd.L_y[index])
        wNaN  == IsNaN(dd.W_x[index]) \/ IsNaN(dd.W_y[index])
        K_x   == IF kNaN THEN 0 ELSE dd.K_x[index]
        K_y   == IF kNaN THEN 0 ELSE dd.K_y[index]
        K_ex  == IF kNaN THEN 0 ELSE d.x[mat]["kH"].err
        K_ey  == IF kNaN THEN 0 ELSE d.y[mat]["kH"].err
        L_x   == IF lNaN THEN 0 ELSE dd.L_x[index]
        L_y   == IF lNaN THEN 0 ELSE dd.L_y[index]
        L_ex  == IF lNaN THEN 0 ELSE d.x[mat][Fmt(ulp)].err
        L_ey  == IF lNaN THEN 0 ELSE d.y[mat][Fmt(ulp)].err
        W_x   == IF wNaN THEN 0 ELSE dd.W_x[index]
        W_y   == IF wNaN THEN 0 ELSE dd.W_y[index]
        W_ex  == IF wNaN THEN 0 ELSE Add(d.x[mat][Fmt(wp1)].err, d.x[mat][Fmt(wp2)].err)
        W_ey  == IF wNaN THEN 0 ELSE Add(d.y[mat][Fmt(wp1)].err, d.y[mat][Fmt(wp2)].err)
    IN  [labels |-> <<mat, mat>>,
         K_x |-> <<K_x, K_x>>, K_y |-> <<K_y, K_y>>,
         L_x |-> <<L_x, L_x>>, L_y |-> <<L_y, L_y>>,
         W_x |-> <<W_x, W_x>>, W_y |-> <<W_y, W_y>>,
         K_x0 |-> <<Sub(K_x, K_ex), K_x>>, K_y0 |-> <<K_y, Sub(K_y, K_ey)>>,
         K_x1 |-> <<Add(K_x, K_ex), K_x>>, K_y1 |-> <<K_y, Add(K_y, K_ey)>>,
         L_x0 |-> <<Sub(L_x, L_ex), L_x>>, L_y0 |-> <<L_y, Sub(L_y, L_ey)>>,
         L_x1 |-> <<Add(L_x, L_ex), L_x>>, L_y1 |-> <<L_y, Add(L_y, L_ey)>>,
         W_x0 |-> <<Sub(W_x, W_ex), W_x>>, W_y0 |-> <<W_y, Sub(W_y, W_ey)>>,
         W_x1 |-> <<Add(W_x, W_ex), W_x>>, W_y1 |-> <<W_y, Add(W_y, W_ey)>>]

\* gen_error(indices) for a list of indices
gen_error(d, dd, ulp, wp1, wp2, indices) ==
    Extend([i \in 1..Len(indices) |-> gen_error_row(d, dd, ulp, wp1, wp2, indices[i])],
           ErrCols)

\* gen_error reads self._dfs.loc only in the non-NaN branches: with no cache
\* (self._dfs is None) it raises as soon as one selected row has a family
\* with both values present.
gen_error_raises(d, dd, indices) ==
    /\ d = NoneRec
    /\ \E i \in 1..Len(indices) :
          \/ ~(IsNaN(dd.K_x[indices[i]]) \/ IsNaN(dd.K_y[indices[i]]))
          \/ ~(IsNaN(dd.L_x[indices[i]]) \/ IsNaN(dd.L_y[indices[i]]))
          \/ ~(IsNaN(dd.W_x[indices[i]]) \/ IsNaN(dd.W_y[indices[i]]))

LCols == {"L_x", "L_y", "L_x0", "L_y0", "L_x1", "L_y1"}
WCols == {"W_x", "W_y", "W_x0", "W_y0", "W_x1", "W_y1"}

patch_error_l_row(d, dd, ulp, index) ==
    LET lNaN  == IsNaN(dd.L_x[index]) \/ IsNaN(dd.L_y[index])
        mat   == dd.labels[index]
        L_x   == IF lNaN THEN 0 ELSE dd.L_x[index]
        L_y   == IF lNaN THEN 0 ELSE dd.L_y[index]
        L_ex  == IF lNaN THEN 0 ELSE d.x[mat][Fmt(ulp)].err
        L_ey  == IF lNaN THEN 0 ELSE d.y[mat][Fmt(ulp)].err
    IN  [L_x |-> <<L_x, L_x>>, L_y |-> <<L_y, L_y>>,
         L_x0 |-> <<Sub(L_x, L_ex), L_x>>, L_y0 |-> <<L_y, Sub(L_y, L_ey)>>,
         L_x1 |-> <<Add(L_x, L_ex), L_x>>, L_y1 |-> <<L_y, Add(L_y, L_ey)>>]

\* mutant of patch_error_l: the patch also rewrites the values of the
\* working-capacity family with the uptake values
patch_error_l_spill(d, dd, ulp, indices) ==
    LET p == Extend([i \in 1..Len(indices) |->
                        patch_error_l_row(d, dd, ulp, indices[i])], LCols)
    IN  p @@ [W_x |-> p.L_x, W_y |-> p.L_y]

\* mutant of patch_error_l: the rows are emitted in ascending index order
patch_error_l_sorted(d, dd, ulp, indices) ==
    LET idx == sorted(indices)
    IN  Extend([i \in 1..Len(idx) |-> patch_error_l_row(d, dd, ulp, idx[i])], LCols)

patch_error_l(d, dd, ulp, indices) ==
    Extend([i \in 1..Len(indices) |-> patch_error_l_row(d, dd, ulp, indices[i])], LCols)

\* mutant of patch_error_wc_row: the error is that of the low boundary
\* pressure alone
patch_error_wc_row_low(d, dd, wp1, wp2, index) ==
    LET wNaN  == IsNaN(dd.W_x[index]) \/ IsNaN(dd.W_y[index])
        mat   == dd.labels[index]
        W_x   == IF wNaN THEN 0 ELSE dd.W_x[index]
        W_y   == IF wNaN THEN 0 ELSE dd.W_y[index]
        W_ex  == IF wNaN THEN 0 ELSE d.x[mat][Fmt(wp1)].err
        W_ey  == IF wNaN THEN 0 ELSE d.y[mat][Fmt(wp1)].err
    IN  [W_x |-> <<W_x, W_x>>, W_y |-> <<W_y, W_y>>,
         W_x0 |-> <<Sub(W_x, W_ex), W_x>>, W_y0 |-> <<W_y, Sub(W_y, W_ey)>>,
         W_x1 |-> <<Add(W_x, W_ex), W_x>>, W_y1 |-> <<W_y, Add(W_y, W_ey)>>]

patch_error_wc_row(d, dd, wp1, wp2, index) ==
    LET wNaN  == IsNaN(dd.W_x[index]) \/ IsNaN(dd.W_y[index])
        mat   == dd.labels[index]
        W_x   == IF wNaN THEN 0 ELSE dd.W_x[index]
        W_y   == IF wNaN THEN 0 ELSE dd.W_y[index]
        W_ex  == IF wNaN THEN 0 ELSE Add(d.x[mat][Fmt(wp1)].err, d.x[mat][Fmt(wp2)].err)
        W_ey  == IF wNaN THEN 0 ELSE Add(d.y[mat][Fmt(wp1)].err, d.y[mat][Fmt(wp2)].err)
    IN  [W_x |-> <<W_x, W_x>>, W_y |-> <<W_y, W_y>>,
         W_x0 |-> <<Sub(W_x, W_ex), W_x>>, W_y0 |-> <<W_y, Sub(W_y, W_ey)>>,
         W_x1 |-> <<Add(W_x, W_ex), W_x>>, W_y1 |-> <<W_y, Add(W_y, W_ey)>>]

patch_error_wc(d, dd, wp1, wp2, indices) ==
    Extend([i \in 1..Len(indices) |-> patch_error_wc_row(d, dd, wp1, wp2, indices[i])], WCols)

\* gen_iso_dict()
gen_iso_dict == <<>>

-----------------------------------------------------------------------------
(* datamodel.py: event handlers.  Every handler runs to its end (or to the   *)
(* statement that raises) on the owner thread before the next one starts.    *)

MaxEvents == 4
MaxSel == 2
MaxGen == 2
MaxLoaderEvents == 2

Event == /\ events < budget
         /\ events' = events + 1
         /\ UNCHANGED <<statsVars, budget, c_cyc>>

\* calculate(), first statement: self._dfs = select_data(...)
calculate(it, ta, tt, a1, a2) == select_data(DATASET, it, ta, tt, a1, a2)

\* mutant of selection_callback: the curve sets are reset only when a single
\* material is selected
selection_callback_keep(new) ==
    IF Len(new) = 0
    THEN /\ errors' = gen_error_none
         /\ g1_iso_sel' = gen_iso_dict
         /\ g2_iso_sel' = gen_iso_dict
         /\ raised' = FALSE
         /\ UNCHANGED <<threads, gen>>
    ELSE IF gen_error_raises(dfs, data, new)
    THEN /\ raised' = TRUE
         /\ UNCHANGED <<errors, g1_iso_sel, g2_iso_sel, threads, gen>>
    ELSE /\ errors' = gen_error(dfs, data, lp, p1, p2, new)
         /\ raised' = FALSE
         /\ IF Len(new) = 1
            THEN /\ g1_iso_sel' = gen_iso_dict
                 /\ g2_iso_sel' = gen_iso_dict
                 /\ gen' = gen + 1
                 /\ threads' = threads \cup
                       {[gen |-> gen + 1, index |-> new[1], ads |-> a, pc |-> "start",
                         mat |-> None, isos |-> <<>>,
                         dmat |-> data.labels[new[1]],
                         dname |-> IF a = "g1" THEN g1 ELSE g2] : a \in {"g1", "g2"}}
            ELSE UNCHANGED <<g1_iso_sel, g2_iso_sel, threads, gen>>

\* selection_callback(attr, old, new) once data.selected.indices is new.
\* A thread record holds the arguments of Thread(...) (index, ads) and the
\* thread's progress (pc, mat, isos); gen, dmat and dname are history
\* variables: the selection that started it, and the material and adsorbate
\* its index and slot denoted when it was started.
selection_callback(new) ==
    IF Len(new) = 0
    THEN /\ errors' = gen_error_none
         /\ g1_iso_sel' = gen_iso_dict
         /\ g2_iso_sel' = gen_iso_dict
         /\ raised' = FALSE
         /\ UNCHANGED <<threads, gen>>
    ELSE IF gen_error_raises(dfs, data, new)
    THEN /\ raised' = TRUE
         /\ UNCHANGED <<errors, g1_iso_sel, g2_iso_sel, threads, gen>>
    ELSE /\ errors' = gen_error(dfs, data, lp, p1, p2, new)
         /\ g1_iso_sel' = gen_iso_dict
         /\ g2_iso_sel' = gen_iso_dict
         /\ raised' = FALSE
         /\ IF Len(new) = 1
            THEN /\ gen' = gen + 1
                 /\ threads' = threads \cup
                       {[gen |-> gen + 1, index |-> new[1], ads |-> a, pc |-> "start",
                         mat |-> None, isos |-> <<>>,
                         dmat |-> data.labels[new[1]],
                         dname |-> IF a = "g1" THEN g1 ELSE g2] : a \in {"g1", "g2"}}
            ELSE UNCHANGED <<threads, gen>>

\* the rest of new_dtype_callback / new_t_callback / new_ads_callback after
\* self._dfs has been assigned d: gen_data() raises on a missing cache;
\* otherwise the snapshot is replaced, a non-empty selection is reset (which
\* runs selection_callback with []) and both curve sets are emptied.
new_dtype_callback(d) ==
    /\ dfs' = d
    /\ IF d = NoneRec
       THEN /\ raised' = TRUE
            /\ UNCHANGED <<data, selected, errors, g1_iso_sel, g2_iso_sel>>
       ELSE /\ data' = gen_data(d, lp, p1, p2)
            /\ selected' = <<>>
            /\ errors' = IF selected # <<>> THEN gen_error_none ELSE errors
            /\ g1_iso_sel' = gen_iso_dict
            /\ g2_iso_sel' = gen_iso_dict
            /\ raised' = FALSE
    /\ UNCHANGED <<threads, ticks, gen, lp, p1, p2>>

new_t_callback(d) ==
    /\ dfs' = d
    /\ IF d = NoneRec
       THEN /\ raised' = TRUE
            /\ UNCHANGED <<data, selected, errors, g1_iso_sel, g2_iso_sel>>
       ELSE /\ data' = gen_data(d, lp, p1, p2)
            /\ selected' = <<>>
            /\ errors' = IF selected # <<>> THEN gen_error_none ELSE errors
            /\ g1_iso_sel' = gen_iso_dict
            /\ g2_iso_sel' = gen_iso_dict
            /\ raised' = FALSE
    /\ UNCHANGED <<threads, ticks, gen, lp, p1, p2>>

new_ads_callback(d) ==
    /\ dfs' = d
    /\ IF d = NoneRec
       THEN /\ raised' = TRUE
            /\ UNCHANGED <<data, selected, errors, g1_iso_sel, g2_iso_sel>>
       ELSE /\ data' = gen_data(d, lp, p1, p2)
            /\ selected' = <<>>
            /\ errors' = IF selected # <<>> THEN gen_error_none ELSE errors
            /\ g1_iso_sel' = gen_iso_dict
            /\ g2_iso_sel' = gen_iso_dict
            /\ raised' = FALSE
    /\ UNCHANGED <<threads, ticks, gen, lp, p1, p2>>

\* RadioButtonGroup 'active' -> iso_type
DType(new) == IF new = 0 THEN None ELSE IF new = 1 THEN "exp" ELSE "sim"

dtype_callback ==
    \E new \in 0..2 :
        /\ Event
        /\ DType(new) # iso_type
        /\ iso_type' = DType(new)
        /\ new_dtype_callback(calculate(DType(new), t_abs, t_tol, g1, g2))
        /\ UNCHANGED <<t_abs, t_tol, g1, g2>>

g1_sel_callback ==
    \E new \in PROBES :
        /\ Event
        /\ new # g1
        /\ g1' = new
        /\ new_ads_callback(calculate(iso_type, t_abs, t_tol, new, g2))
        /\ UNCHANGED <<iso_type, t_abs, t_tol, g2>>

g2_sel_callback ==
    \E new \in PROBES :
        /\ Event
        /\ new # g2
        /\ g2' = new
        /\ new_ads_callback(calculate(iso_type, t_abs, t_tol, g1, new))
        /\ UNCHANGED <<iso_type, t_abs, t_tol, g1>>

t_abs_callback ==
    \E new \in TAbs :
        /\ Event
        /\ new # t_abs
        /\ t_abs' = new
        /\ new_t_callback(calculate(iso_type, new, t_tol, g1, g2))
        /\ UNCHANGED <<iso_type, t_tol, g1, g2>>

t_tol_callback ==
    \E new \in TTol :
        /\ Event
        /\ new # t_tol
        /\ t_tol' = new
        /\ new_t_callback(calculate(iso_type, t_abs, new, g1, g2))
        /\ UNCHANGED <<iso_type, t_abs, g1, g2>>

uptake_callback ==
    \E new \in PVals :
        /\ Event
        /\ new # lp
        /\ lp' = new
        /\ IF dfs = NoneRec
           THEN /\ raised' = TRUE
                /\ UNCHANGED <<data, errors>>
           ELSE /\ data' = patch(data, patch_data_l(dfs, new))
                /\ errors' = IF selected # <<>>
                             THEN patch(errors, patch_error_l(dfs, data', new, selected))
                             ELSE errors
                /\ raised' = FALSE
        /\ UNCHANGED <<iso_type, t_abs, t_tol, g1, g2, p1, p2, dfs, selected,
                       g1_iso_sel, g2_iso_sel, threads, ticks, gen>>

wc_callback ==
    \E lo \in PVals, hi \in PVals :
        /\ Event
        /\ lo <= hi
        /\ <<lo, hi>> # <<p1, p2>>
        /\ p1' = lo
        /\ p2' = hi
        /\ IF dfs = NoneRec
           THEN /\ raised' = TRUE
                /\ UNCHANGED <<data, errors>>
           ELSE /\ data' = patch(data, patch_data_w(dfs, data, lo, hi))
                /\ errors' = IF selected # <<>>
                             THEN patch(errors, patch_error_wc(dfs, data', lo, hi, selected))
                             ELSE errors
                /\ raised' = FALSE
        /\ UNCHANGED <<iso_type, t_abs, t_tol, g1, g2, lp, dfs, selected,
                       g1_iso_sel, g2_iso_sel, threads, ticks, gen>>

\* lists of distinct row indices of the snapshot, at most MaxSel long
Selections(n) ==
    {s \in SeqsUpTo(1..n, MaxSel) : \A i, j \in 1..Len(s) : i # j => s[i] # s[j]}

\* the user changes the selection on the top graphs
select ==
    \E new \in Selections(Len(data.labels)) :
        /\ Event
        /\ new # selected
        /\ Len(new) = 1 => gen < MaxGen
        /\ selected' = new
        /\ selection_callback(new)
        /\ UNCHANGED <<iso_type, t_abs, t_tol, g1, g2, lp, p1, p2, dfs, data, ticks>>

-----------------------------------------------------------------------------
(* datamodel.py: loader threads and next-tick callbacks *)

\* self._dfs.loc[mat, (ads, 'mL')]: the measured loadings of the material
\* for the slot's adsorbate, one per pressure bucket
MatLoading(d, mat, slot) == [i \in 1..Len(PCols) |-> d[slot][mat][PCols[i]].med]

\* self._dfs.loc[mat, (ads, 'iso')]: the stored isotherm references of the
\* material for an adsorbate, in dataset order (a reference is the row number)
MatIsos(mat, name) ==
    LET F[i \in 0..Len(DATASET)] ==
            IF i = 0 THEN <<>>
            ELSE IF DATASET[i].mat = mat /\ DATASET[i].ads = name
                 THEN Append(F[i - 1], i) ELSE F[i - 1]
    IN  F[Len(DATASET)]

\* helpers.load_isotherm(ref): the parsed isotherm, or None
load_isotherm(ref) == IF DATASET[ref].ok THEN [label |-> "iso", ref |-> ref] ELSE NoneRec

\* [p * 0.5 for p in range(len(loading) + 1)]
Pressure(loading) == [i \in 1..(Len(loading) + 1) |-> (i - 1) * (Unit \div 2)]

ThreadDone == UNCHANGED <<iso_type, t_abs, t_tol, g1, g2, lp, p1, p2, dfs, data,
                          selected, errors, g1_iso_sel, g2_iso_sel, raised, gen,
                          events, budget, c_cyc, series, result>>

\* populate_isos lines 544-556 (g1) / 544, 567-575 (g2): the thread reads
\* the material under its index in the snapshot as it is when the thread
\* runs, then the cache; a failed lookup ends the thread with an exception.
populate_start ==
    \E th \in threads :
        /\ th.pc = "start"
        /\ IF \/ th.index \notin 1..Len(data.labels)
              \/ dfs = NoneRec
              \/ data.labels[th.index] \notin Range(dfs.index)
           THEN /\ threads' = threads \ {th}
                /\ UNCHANGED ticks
           ELSE LET mat     == data.labels[th.index]
                    slot    == IF th.ads = "g1" THEN "x" ELSE "y"
                    name    == IF th.ads = "g1" THEN g1 ELSE g2
                    loading == MatLoading(dfs, mat, slot)
                    isos    == MatIsos(mat, name)
                    iso     == [label |-> "median", ref |-> 0, y |-> loading,
                                x |-> Pressure(loading), mat |-> mat,
                                name |-> name, gen |-> th.gen]
                IN  /\ ticks' = Append(ticks, [slot |-> th.ads, iso |-> iso, color |-> "k"])
                    /\ threads' = (threads \ {th}) \cup
                          (IF isos = <<>> THEN {}
                           ELSE {[th EXCEPT !.pc = "parse", !.mat = mat, !.isos = isos]})
        /\ ThreadDone

\* mutant of populate_parse: the thread streams the parsed curve into the
\* slot's curve set itself instead of handing it to the owner thread
populate_parse_direct ==
    \E th \in threads :
        /\ th.pc = "parse"
        /\ LET ref    == Head(th.isos)
               parsed == load_isotherm(ref)
               curve  == [label |-> "iso", ref |-> ref, y |-> <<>>, x |-> <<>>,
                          mat |-> th.mat, name |-> DATASET[ref].ads,
                          gen |-> th.gen, color |-> "k"]
           IN  /\ g1_iso_sel' = IF parsed # NoneRec /\ th.ads = "g1"
                                THEN Append(g1_iso_sel, curve) ELSE g1_iso_sel
               /\ g2_iso_sel' = IF parsed # NoneRec /\ th.ads = "g2"
                                THEN Append(g2_iso_sel, curve) ELSE g2_iso_sel
               /\ threads' = (threads \ {th}) \cup
                     (IF Len(th.isos) = 1 THEN {}
                      ELSE {[th EXCEPT !.isos = Tail(th.isos)]})
        /\ UNCHANGED <<iso_type, t_abs, t_tol, g1, g2, lp, p1, p2, dfs, data,
                       selected, errors, ticks, raised, gen, events, budget, c_cyc,
                       series, result>>

\* mutant of populate_parse: a reference that does not decode ends the
\* thread
populate_parse_abort ==
    \E th \in threads :
        /\ th.pc = "parse"
        /\ LET ref    == Head(th.isos)
               parsed == load_isotherm(ref)
           IN  /\ ticks' = IF parsed # NoneRec
                           THEN Append(ticks,
                                  [slot |-> th.ads,
                                   iso |-> [label |-> "iso", ref |-> ref, y |-> <<>>, x |-> <<>>,
                                            mat |-> th.mat, name |-> DATASET[ref].ads,
                                            gen |-> th.gen],
                                   color |-> None])
                           ELSE ticks
               /\ threads' = (threads \ {th}) \cup
                     (IF Len(th.isos) = 1 \/ parsed = NoneRec THEN {}
                      ELSE {[th EXCEPT !.isos = Tail(th.isos)]})
        /\ ThreadDone

\* populate_isos lines 556-563 (g1) / 575-581 (g2): one pass of the loop
populate_parse ==
    \E th \in threads :
        /\ th.pc = "parse"
        /\ LET ref    == Head(th.isos)
               parsed == load_isotherm(ref)
               name   == IF th.ads = "g1" THEN g1 ELSE g2
           IN  /\ ticks' = IF parsed # NoneRec
                           THEN Append(ticks,
                                  [slot |-> th.ads,
                                   iso |-> [label |-> "iso", ref |-> ref, y |-> <<>>, x |-> <<>>,
                                            mat |-> th.mat, name |-> DATASET[ref].ads,
                                            gen |-> th.gen],
                                   color |-> None])
                           ELSE ticks
               /\ threads' = (threads \ {th}) \cup
                     (IF Len(th.isos) = 1 THEN {}
                      ELSE {[th EXCEPT !.isos = Tail(th.isos)]})
        /\ ThreadDone

\* The references whose decode never returns (load_isotherm blocks for ever)
\* in the stalled-decode scenario.
Stalled == {6}

\* a loader thread sits in load_isotherm on a reference whose decode stalls
StalledThread(th) == th.pc = "parse" /\ Head(th.isos) \in Stalled

\* populate_isos, one pass of the loop, for the threads whose current
\* reference does decode or fail in finite time
populate_parse_returns ==
    \E th \in threads :
        /\ th.pc = "parse"
        /\ ~StalledThread(th)
        /\ LET ref    == Head(th.isos)
               parsed == load_isotherm(ref)
           IN  /\ ticks' = IF parsed # NoneRec
                           THEN Append(ticks,
                                  [slot |-> th.ads,
                                   iso |-> [label |-> "iso", ref |-> ref, y |-> <<>>, x |-> <<>>,
                                            mat |-> th.mat, name |-> DATASET[ref].ads,
                                            gen |-> th.gen],
                                   color |-> None])
                           ELSE ticks
               /\ threads' = (threads \ {th}) \cup
                     (IF Len(th.isos) = 1 THEN {}
                      ELSE {[th EXCEPT !.isos = Tail(th.isos)]})
        /\ ThreadDone

\* gen_palette(20): the 20 colours of the viridis palette, in order
gen_palette == <<"v01", "v02", "v03", "v04", "v05", "v06", "v07", "v08", "v09", "v10",
                 "v11", "v12", "v13", "v14", "v15", "v16", "v17", "v18", "v19", "v20">>

\* iso_update_g1 / iso_update_g2 run as the next tick callback.  DataModel
\* has no attribute c_cyc (the palette belongs to the dashboard object), so a
\* callback that has to draw a colour raises before it streams anything and
\* the dashboard's palette is never advanced.
iso_update(sel, cb) ==
    IF cb.color = None THEN sel
    ELSE Append(sel, cb.iso @@ [color |-> cb.color])

\* mutant of next_tick: the owner thread runs a callback only once every
\* loader thread has ended (it joins the threads)
next_tick_join ==
    /\ ticks # <<>>
    /\ threads = {}
    /\ LET cb == Head(ticks)
       IN  /\ raised' = (cb.color = None)
           /\ g1_iso_sel' = IF cb.slot = "g1" THEN iso_update(g1_iso_sel, cb) ELSE g1_iso_sel
           /\ g2_iso_sel' = IF cb.slot = "g2" THEN iso_update(g2_iso_sel, cb) ELSE g2_iso_sel
    /\ ticks' = Tail(ticks)
    /\ UNCHANGED <<iso_type, t_abs, t_tol, g1, g2, lp, p1, p2, dfs, data, selected,
                   errors, threads, gen, events, budget, c_cyc, series, result>>

next_tick ==
    /\ ticks # <<>>
    /\ LET cb == Head(ticks)
       IN  /\ raised' = (cb.color = None)
           /\ g1_iso_sel' = IF cb.slot = "g1" THEN iso_update(g1_iso_sel, cb) ELSE g1_iso_sel
           /\ g2_iso_sel' = IF cb.slot = "g2" THEN iso_update(g2_iso_sel, cb) ELSE g2_iso_sel
    /\ ticks' = Tail(ticks)
    /\ UNCHANGED <<iso_type, t_abs, t_tol, g1, g2, lp, p1, p2, dfs, data, selected,
                   errors, threads, gen, events, budget, c_cyc, series, result>>

-----------------------------------------------------------------------------
(* Specifications *)

\* the state DataModel.__init__ leaves
Construct ==
    /\ series = <<>>
    /\ result = NoneRec
    /\ iso_type = None
    /\ t_abs = 303
    /\ t_tol = 10
    /\ g1 = "propane"
    /\ g2 = "propene"
    /\ lp = Unit \div 2
    /\ p1 = Unit \div 2
    /\ p2 = 5 * Unit
    /\ dfs = INITIAL
    /\ data = gen_data(dfs, lp, p1, p2)
    /\ selected = <<>>
    /\ errors = gen_error_none
    /\ g1_iso_sel = gen_iso_dict
    /\ g2_iso_sel = gen_iso_dict
    /\ threads = {}
    /\ ticks = <<>>
    /\ raised = FALSE
    /\ gen = 0
    /\ events = 0
    /\ c_cyc = 0

\* the widget events, all handled on the owner thread
OwnerNext ==
    \/ dtype_callback
    \/ g1_sel_callback
    \/ g2_sel_callback
    \/ t_abs_callback
    \/ t_tol_callback
    \/ uptake_callback
    \/ wc_callback
    \/ select

\* the loader threads and the delivery of their callbacks
LoaderNext ==
    \/ populate_start
    \/ populate_parse
    \/ next_tick

\* SpecKPI: the owner thread's view (snapshot, cache, selection, overlay)
\* over MaxEvents widget events; the loader threads a selection starts are
\* recorded but do not run.
InitKPI == Construct /\ budget = MaxEvents

SpecKPI == InitKPI /\ [][OwnerNext]_vars

\* Spec: MaxLoaderEvents widget events interleaved with the loader threads
\* and the delivery of their callbacks.
Init == Construct /\ budget = MaxLoaderEvents

Next == OwnerNext \/ LoaderNext

Spec == Init /\ [][Next]_vars

StatsInitAll ==
    /\ StatsInit
    /\ iso_type = None /\ t_abs = 303 /\ t_tol = 10
    /\ g1 = "propane" /\ g2 = "propene"
    /\ lp = Unit \div 2 /\ p1 = Unit \div 2 /\ p2 = 5 * Unit
    /\ dfs = NoneRec /\ data = NoneRec /\ selected = <<>> /\ errors = gen_error_none
    /\ g1_iso_sel = <<>> /\ g2_iso_sel = <<>> /\ threads = {} /\ ticks = <<>>
    /\ raised = FALSE /\ gen = 0 /\ events = 0 /\ budget = 0 /\ c_cyc = 0

SpecStats == StatsInitAll /\ [][StatsNext]_vars

\* SpecStall: Spec in the scenario where the decode of the references in
\* Stalled never returns.  Threads are scheduled by the operating system and
\* next-tick callbacks by the event loop: every thread that can run and
\* every queued callback eventually does (weak fairness); nothing forces the
\* user to produce widget events.
NextStall ==
    \/ OwnerNext
    \/ populate_start
    \/ populate_parse_returns
    \/ next_tick

SpecStall ==
    /\ Init
    /\ [][NextStall]_vars
    /\ WF_vars(populate_start)
    /\ WF_vars(populate_parse_returns)
    /\ WF_vars(next_tick)

-----------------------------------------------------------------------------
(* Properties *)

\* what a full recompute produces for the current criteria and parameters
Criteria == select_data(DATASET, iso_type, t_abs, t_tol, g1, g2)
FullRecompute == gen_data(Criteria, lp, p1, p2)

AllCurves == Range(g1_iso_sel) \cup Range(g2_iso_sel)

\* C1: once a later material has been selected, neither curve set holds a
\* curve produced by the loader tasks of an earlier selection: every curve in
\* a curve set carries the generation of the current selection.
C1_NoStaleCurve == \A c \in AllCurves : c.gen = gen

UptakeCols == {"L_x", "L_y", "L_nx", "L_ny", "L_n"}

\* C2: after a full recompute and any sequence of patches, the uptake
\* columns of the snapshot equal, row by row, those of a full recompute with
\* the same criteria and the current uptake pressure.
C2_PatchUptakeConsistent ==
    Criteria # NoneRec => \A c \in UptakeCols : data[c] = FullRecompute[c]

\* C2 witness: exactly one uptake patch and one working-capacity patch have
\* been applied to a non-empty snapshot.
C2_Witness ==
    /\ events = 2
    /\ lp # Unit \div 2
    /\ <<p1, p2>> # <<Unit \div 2, 5 * Unit>>
    /\ Len(data.labels) = 2
    /\ data.L_x # data.L_y

WcCols == {"W_x", "W_y", "W_nx", "W_ny", "W_n", "psa_W"}

\* C3: after a full recompute and any sequence of patches, the working
\* capacity columns and the screening metric psa_W of the snapshot equal, row
\* by row, those of a full recompute with the same criteria and the current
\* working-capacity range.
C3_PatchWcConsistent ==
    Criteria # NoneRec => \A c \in WcCols : data[c] = FullRecompute[c]

\* C4: a filter change whose adsorbate subsets share no material leaves an
\* empty snapshot and no handler raises, then or later.
C4_EmptyIsNormal ==
    /\ ~raised
    /\ dfs = NoneRec => Len(data.labels) = 0

NonMissing(s) == {i \in 1..Len(s) : s[i] # NaN}

\* the samples of s lying inside [lo, hi]
Inside(s, lo, hi) == SelectSeq(s, LAMBDA x : x # NaN /\ lo <= x /\ x <= hi)

\* C5: for more than 4 non-missing samples of which some lie above
\* Q3 + 1.5 IQR, median and error are those of the samples lying inside
\* [Q1 - 1.5 IQR, Q3 + 1.5 IQR].
C5_OutliersRejected ==
    LET a    == sorted(SelectSeq(series, LAMBDA x : x # NaN))
        Q1   == percentile(a, 25)
        Q3   == percentile(a, 75)
        lo   == Q1 - (3 * (Q3 - Q1)) \div 2
        hi   == Q3 + (3 * (Q3 - Q1)) \div 2
        kept == Inside(series, lo, hi)
    IN  (/\ result # NoneRec
         /\ Cardinality(NonMissing(series)) > 4
         /\ \E i \in NonMissing(series) : series[i] > hi) =>
            /\ result.med = median(kept)
            /\ result.err = std(kept)

\* C6: whenever the selection is empty, both curve sets are empty.
C6_EmptySelectionNoCurves ==
    selected = <<>> => (g1_iso_sel = <<>> /\ g2_iso_sel = <<>>)

FilterCriteria == <<iso_type, t_abs, t_tol, g1, g2>>

\* C7: a step that handles a filter change ends with the snapshot fully
\* recomputed for the new criteria, the selection empty, the error overlay
\* empty and both curve sets empty.
C7_FilterResets ==
    [][FilterCriteria' # FilterCriteria =>
          /\ selected' = <<>>
          /\ errors' = gen_error_none
          /\ g1_iso_sel' = <<>>
          /\ g2_iso_sel' = <<>>
          /\ LET d == select_data(DATASET, iso_type', t_abs', t_tol', g1', g2')
             IN  IF d = NoneRec THEN Len(data'.labels) = 0
                 ELSE data' = gen_data(d, lp', p1', p2')]_vars

\* C8: with a selection in place, an uptake-pressure step changes no overlay
\* entry outside the uptake family, and a working-capacity step none outside
\* the working-capacity family.
C8_OverlayFrame ==
    [][/\ (lp' # lp /\ selected # <<>>) =>
              \A c \in ErrCols \ LCols : errors'[c] = errors[c]
       /\ (<<p1, p2>>' # <<p1, p2>> /\ selected # <<>>) =>
              \A c \in ErrCols \ WCols : errors'[c] = errors[c]]_vars

\* the overlay entries 2i-1 and 2i of column c
Pair(c, i) == <<errors[c][2 * i - 1], errors[c][2 * i]>>

FamilyZero(f, i) ==
    \A c \in {f \o "_x", f \o "_y", f \o "_x0", f \o "_y0", f \o "_x1", f \o "_y1"} :
        Pair(c, i) = <<0, 0>>

\* C8 witness: an overlay for two selected rows whose uptake family has been
\* regenerated at another pressure, with non-trivial working-capacity
\* segments next to it.
C8_Witness ==
    /\ ~raised
    /\ Len(selected) = 2
    /\ lp = Unit
    /\ errors.W_x0 # errors.W_x
    /\ errors.L_x0 # errors.L_x

\* C9: an exception is raised only while there is no cache, never by a
\* missing value; and whenever the last handler completed, the overlay has one
\* pair of entries per selected row, labelled with the row's material, and
\* every metric family of the row whose x or y value is NaN has all its
\* entries (values and segment ends) equal to 0.
C9_NaNRowsAreZero ==
    /\ dfs # NoneRec => ~raised
    /\ ~raised =>
         /\ \A c \in ErrCols : Len(errors[c]) = 2 * Len(selected)
         /\ \A i \in 1..Len(selected) :
               LET index == selected[i]
               IN  /\ Pair("labels", i) = <<data.labels[index], data.labels[index]>>
                   /\ (IsNaN(data.K_x[index]) \/ IsNaN(data.K_y[index])) => FamilyZero("K", i)
                   /\ (IsNaN(data.L_x[index]) \/ IsNaN(data.L_y[index])) => FamilyZero("L", i)
                   /\ (IsNaN(data.W_x[index]) \/ IsNaN(data.W_y[index])) => FamilyZero("W", i)

\* C9 witness: a selected row with a missing x value and a present y value
\* in the Henry family, whose uptake family has been regenerated by an uptake
\* patch at a pressure where only the y value is missing.
C9_Witness ==
    /\ ~raised
    /\ dfs # NoneRec
    /\ \E i \in 1..Len(selected) :
          /\ IsNaN(data.K_x[selected[i]]) /\ ~IsNaN(data.K_y[selected[i]])
          /\ ~IsNaN(data.L_x[selected[i]]) /\ IsNaN(data.L_y[selected[i]])
          /\ lp # Unit \div 2
          /\ FamilyZero("K", i)
          /\ FamilyZero("L", i)

\* C10: for at most one non-missing sample, error is 0 and median is NaN
\* (no sample) or the single non-missing sample.
C10_SmallSamples ==
    (result # NoneRec /\ Cardinality(NonMissing(series)) <= 1) =>
        /\ result.err = 0
        /\ NonMissing(series) = {} => IsNaN(result.med)
        /\ \A i \in NonMissing(series) : result.med = series[i]

\* C10 witness: one value left after a missing value has been dropped
C10_Witness ==
    /\ result # NoneRec
    /\ Len(series) >= 2
    /\ Cardinality(NonMissing(series)) = 1
    /\ result.err = 0

\* the non-missing samples of s, in order
Present(s) == SelectSeq(s, LAMBDA x : x # NaN)

\* C11: for 2, 3 or 4 non-missing samples no outlier rejection is applied:
\* median and error (population standard deviation) are those of all the
\* non-missing samples, also when one of them is far from the others.
C11_SmallNoRejection ==
    (result # NoneRec /\ Cardinality(NonMissing(series)) \in 2..4) =>
        /\ result.size = Cardinality(NonMissing(series))
        /\ result.med = median(Present(series))
        /\ result.err = std(Present(series))

\* C11 witness: four samples, one of them far from the three others, and the
\* far one is part of the median
C11_Witness ==
    /\ result # NoneRec
    /\ Cardinality(NonMissing(series)) = 4
    /\ Cardinality({i \in NonMissing(series) : series[i] = 100 * Unit}) = 1
    /\ result.err > 10 * Unit

\* a dataset row passes the type and temperature filter of the state
Passes(r) ==
    /\ (iso_type # None => r.type = iso_type)
    /\ t_abs - t_tol <= r.t /\ r.t <= t_abs + t_tol

\* the materials with a passing row for adsorbate 1 and one for adsorbate 2
Shared ==
    {m \in {DATASET[i].mat : i \in 1..Len(DATASET)} :
        /\ \E i \in 1..Len(DATASET) :
              DATASET[i].mat = m /\ DATASET[i].ads = g1 /\ Passes(DATASET[i])
        /\ \E i \in 1..Len(DATASET) :
              DATASET[i].mat = m /\ DATASET[i].ads = g2 /\ Passes(DATASET[i])}

\* the snapshot lists exactly the shared materials, each once
SnapshotIsJoin ==
    /\ Range(data.labels) = Shared
    /\ \A i, j \in 1..Len(data.labels) : data.labels[i] = data.labels[j] => i = j

\* C12: after every full recompute the snapshot has a row for a material if
\* and only if the material has a row passing the type and temperature
\* filter for adsorbate 1 and one for adsorbate 2, and exactly one row per
\* such material.
C12_InnerJoin == [][FilterCriteria' # FilterCriteria => SnapshotIsJoin']_vars

\* C12 apart from the recomputes that find no shared material
C12_InnerJoinNonEmpty ==
    [][(FilterCriteria' # FilterCriteria /\ Shared' # {}) => SnapshotIsJoin']_vars

\* the curves of generation k in a slot: those applied to its curve set,
\* followed by those of its callbacks still waiting in the queue
SlotCurves(slot, k) ==
    LET sel     == IF slot = "g1" THEN g1_iso_sel ELSE g2_iso_sel
        applied == SelectSeq(sel, LAMBDA c : c.gen = k)
        waiting == SelectSeq(ticks, LAMBDA cb : cb.slot = slot /\ cb.iso.gen = k)
    IN  [i \in 1..Len(applied) |-> [label |-> applied[i].label, ref |-> applied[i].ref]]
            \o [i \in 1..Len(waiting) |->
                   [label |-> waiting[i].iso.label, ref |-> waiting[i].iso.ref]]

\* the median curve, unless a reset has removed it, first; then parsed
\* curves by ascending dataset position
EmissionOrdered(cs) ==
    \A i \in 1..Len(cs) :
        /\ (cs[i].label = "median") => (i = 1)
        /\ \A j \in 1..Len(cs) : (1 < i /\ i < j) => cs[i].ref < cs[j].ref

\* the callbacks of one slot of one selection are enqueued and delivered in
\* emission order
C13_EmissionOrder ==
    \A slot \in {"g1", "g2"}, k \in 1..gen : EmissionOrdered(SlotCurves(slot, k))

\* C13: within one slot of one selection the curves are applied to the
\* slot's curve set in emission order, the median curve first and then the
\* parsed curves in dataset order: every delivered callback appends its
\* curve to the end of its slot's curve set.
C13_AppliedInOrder ==
    [][(ticks # <<>> /\ ticks' = Tail(ticks)) =>
          LET cb   == Head(ticks)
              sel  == IF cb.slot = "g1" THEN g1_iso_sel ELSE g2_iso_sel
              sel2 == IF cb.slot = "g1" THEN g1_iso_sel' ELSE g2_iso_sel'
          IN  /\ Len(sel2) = Len(sel) + 1
              /\ sel2[Len(sel2)].label = cb.iso.label
              /\ sel2[Len(sel2)].ref = cb.iso.ref
              /\ sel2[Len(sel2)].gen = cb.iso.gen]_vars

\* C14: a loader task neither reads nor writes the snapshot and the cache,
\* so a full recompute between its dispatch and its execution cannot change
\* what it loads: the median curve a task enqueues is that of the material
\* and the adsorbate its index and slot denoted when it was dispatched.
C14_LoaderIsolated ==
    [][\A th \in threads :
          (th.pc = "start" /\ th \notin threads' /\ Len(ticks') = Len(ticks) + 1) =>
              /\ ticks'[Len(ticks')].iso.mat = th.dmat
              /\ ticks'[Len(ticks')].iso.name = th.dname]_vars

\* a step of a loader thread: no widget event, and a thread starts its
\* lookup, advances in its loop or ends
LoaderStep == events' = events /\ threads' # threads

\* a step of the owner thread: a widget event or the run of a callback
OwnerStep == events' = events + 1 \/ (ticks # <<>> /\ ticks' = Tail(ticks))

\* C15: loader tasks never mutate the curve sets, the overlay, the snapshot
\* or the selection directly: a step of a loader thread changes at most the
\* callback queue, by appending, and the curve sets change only when the
\* owner thread runs a callback or handles a selection or filter event.
C15_LoaderOnlyEnqueues ==
    [][/\ LoaderStep =>
            /\ UNCHANGED <<g1_iso_sel, g2_iso_sel, errors, data, dfs, selected>>
            /\ Len(ticks') >= Len(ticks)
            /\ SubSeq(ticks', 1, Len(ticks)) = ticks
       /\ <<g1_iso_sel, g2_iso_sel>>' # <<g1_iso_sel, g2_iso_sel>> => OwnerStep]_vars

\* C15 witness: a loader thread has produced the median curve and a parsed
\* curve of a slot, both wait in the queue, and the curve sets are untouched
C15_Witness ==
    /\ \E i, j \in 1..Len(ticks) :
          /\ ticks[i].iso.label = "median"
          /\ ticks[j].iso.label = "iso"
          /\ ticks[i].slot = ticks[j].slot
    /\ g1_iso_sel = <<>>
    /\ g2_iso_sel = <<>>
    /\ selected # <<>>

\* the columns of the snapshot outside the set cs are unchanged by the step
SnapshotFrame(cs) ==
    /\ DOMAIN data' = DOMAIN data
    /\ \A c \in DOMAIN data \ cs : data'[c] = data[c]

\* C16: a patch never changes which materials are in the snapshot nor their
\* order: an uptake step changes only the uptake value and count columns, a
\* working-capacity step only the working-capacity value and count columns
\* and the screening metric; labels, Henry columns, selectivity and the
\* selection are unchanged by both.
C16_PatchFrame ==
    [][/\ lp' # lp => (SnapshotFrame(UptakeCols) /\ selected' = selected)
       /\ <<p1, p2>>' # <<p1, p2>> => (SnapshotFrame(WcCols) /\ selected' = selected)]_vars

\* C16 witness: with a material selected, both patches have been applied to
\* a snapshot that still lists the materials of the last full recompute
C16_Witness ==
    /\ dfs # NoneRec
    /\ ~raised
    /\ selected # <<>>
    /\ lp # Unit \div 2
    /\ <<p1, p2>> # <<Unit \div 2, 5 * Unit>>
    /\ data.labels = dfs.index
    /\ data.L_x # gen_data(dfs, Unit \div 2, Unit \div 2, 5 * Unit).L_x
    /\ data.W_x # gen_data(dfs, Unit \div 2, Unit \div 2, 5 * Unit).W_x

\* the step dispatches exactly the two loader tasks of row index, one per
\* slot, and leaves the tasks dispatched earlier alone
DispatchesTwo(index) ==
    /\ threads \subseteq threads'
    /\ Cardinality(threads' \ threads) = 2
    /\ \A th \in threads' \ threads : th.index = index /\ th.pc = "start"
    /\ {th.ads : th \in threads' \ threads} = {"g1", "g2"}

\* what C17 says of a step that changes the selection
SelectionDispatch ==
    /\ (threads' # threads) <=> (Len(selected') = 1)
    /\ Len(selected') = 1 =>
          /\ DispatchesTwo(selected'[1])
          /\ g1_iso_sel' = <<>>
          /\ g2_iso_sel' = <<>>
          /\ errors'.labels = <<data.labels[selected'[1]], data.labels[selected'[1]]>>

\* C17: a selection-set change dispatches loader tasks if and only if the
\* new selection contains exactly one material, and then exactly two tasks,
\* one per adsorbate slot, with the overlay and both curve sets of the
\* previous selection cleared.
C17_Dispatch == [][selected' # selected => SelectionDispatch]_vars

\* C17 for the selection changes made while the stats cache exists
C17_DispatchCached ==
    [][(selected' # selected /\ dfs # NoneRec) => SelectionDispatch]_vars

\* a step that changes the selection to more than one material
MultiSelect == selected' # selected /\ Len(selected') > 1

\* C18 as stated: a selection-set change to more than one material
\* dispatches no loader task and leaves both curve sets as they were.
C18_MultiKeepsCurves ==
    [][MultiSelect => (threads' = threads /\ UNCHANGED <<g1_iso_sel, g2_iso_sel>>)]_vars

\* C18 amended: a selection-set change to more than one material dispatches
\* no loader task; it regenerates the overlay for the selected materials and
\* empties both curve sets; if regenerating the overlay fails, the overlay
\* and the curve sets are all left unchanged.
C18_MultiClearsCurves ==
    [][MultiSelect =>
          /\ threads' = threads
          /\ \/ /\ ~raised'
                /\ errors'.labels =
                      [i \in 1..(2 * Len(selected')) |-> data.labels[selected'[(i + 1) \div 2]]]
                /\ g1_iso_sel' = <<>>
                /\ g2_iso_sel' = <<>>
             \/ /\ raised'
                /\ UNCHANGED <<errors, g1_iso_sel, g2_iso_sel>>]_vars

\* C18 witness: the loader tasks of a single selection ran and their curves
\* were delivered, then a second material was added to the selection and
\* the curve sets are empty
C18_Witness ==
    /\ Len(selected) = 2
    /\ gen = 1
    /\ threads = {}
    /\ ticks = <<>>
    /\ ~raised
    /\ dfs = INITIAL
    /\ g1_iso_sel = <<>>
    /\ g2_iso_sel = <<>>

\* the materials held in the per-material stats cache, in row order
CacheMaterials == IF dfs = NoneRec THEN <<>> ELSE dfs.index

\* C19: the snapshot and the cache are replaced together: in every state,
\* also after a recompute that finds no shared material, the snapshot lists
\* exactly the materials held in the cache.
C19_SnapshotMatchesCache == data.labels = CacheMaterials

\* C19 for the states in which the cache exists
C19_SnapshotMatchesCacheCached == dfs # NoneRec => data.labels = dfs.index

\* C20: every parsed curve that is delivered is applied with the next colour
\* of the one cyclic palette, which advances by exactly one; the median
\* curve is applied with the sentinel colour and leaves the palette alone.
C20_PaletteColours ==
    [][(ticks # <<>> /\ ticks' = Tail(ticks)) =>
          LET cb   == Head(ticks)
              sel2 == IF cb.slot = "g1" THEN g1_iso_sel' ELSE g2_iso_sel'
              sel  == IF cb.slot = "g1" THEN g1_iso_sel ELSE g2_iso_sel
          IN  /\ Len(sel2) = Len(sel) + 1
              /\ IF cb.iso.label = "median"
                 THEN /\ sel2[Len(sel2)].color = "k"
                      /\ c_cyc' = c_cyc
                 ELSE /\ sel2[Len(sel2)].color = gen_palette[(c_cyc % Len(gen_palette)) + 1]
                      /\ c_cyc' = c_cyc + 1]_vars

\* the part of C20 about the median curve: it is applied with the sentinel
\* colour and the palette is not advanced
C20_MedianSentinel ==
    /\ \A c \in AllCurves : c.label = "median" => c.color = "k"
    /\ c_cyc = 0

\* C21: when the decoder returns nothing for a reference, the loader emits
\* no curve for it and goes on to the next reference; a decodable reference
\* is emitted; the task does not fail on either: in every pass of a loader's
\* loop the queue grows by the curve of the reference exactly if it decodes,
\* and the thread stays with the remaining references.
C21_SkipUndecodable ==
    [][\A th \in threads :
          (th.pc = "parse" /\ th \notin threads') =>
              LET ref == Head(th.isos)
              IN  /\ IF load_isotherm(ref) = NoneRec
                     THEN ticks' = ticks
                     ELSE /\ Len(ticks') = Len(ticks) + 1
                          /\ SubSeq(ticks', 1, Len(ticks)) = ticks
                          /\ ticks'[Len(ticks')].slot = th.ads
                          /\ ticks'[Len(ticks')].iso.ref = ref
                  /\ Len(th.isos) > 1 =>
                          [th EXCEPT !.isos = Tail(th.isos)] \in threads'
                  /\ raised' = raised]_vars

\* C21 witness: the first reference of a slot did not decode, and the median
\* curve and the curve of the second reference have both been emitted
C21_Witness ==
    \E i, j \in 1..Len(ticks) :
        /\ i < j
        /\ ticks[i].iso.label = "median"
        /\ ticks[j].iso.label = "iso"
        /\ ticks[i].slot = ticks[j].slot
        /\ ticks[i].iso.gen = ticks[j].iso.gen
        /\ \E r \in 1..(ticks[j].iso.ref - 1) :
              /\ DATASET[r].mat = ticks[j].iso.mat
              /\ DATASET[r].ads = ticks[j].iso.name
              /\ ~DATASET[r].ok

\* the callback of the parsed curve of reference r, produced by the task of
\* selection k for the slot, waits in the queue
Enqueued(slot, k, r) ==
    \E i \in 1..Len(ticks) :
        /\ ticks[i].slot = slot
        /\ ticks[i].iso.gen = k
        /\ ticks[i].iso.label = "iso"
        /\ ticks[i].iso.ref = r

\* the task of selection k for the slot still has the decodable reference r
\* to load; Behind tells whether r comes after a reference whose decode stalls
ToLoad(slot, k, r, behind) ==
    \E th \in threads :
        /\ th.gen = k /\ th.ads = slot /\ th.pc = "parse"
        /\ DATASET[r].ok /\ r \notin Stalled
        /\ \E i \in 1..Len(th.isos) :
              /\ th.isos[i] = r
              /\ behind <=> (\E j \in 1..(i - 1) : th.isos[j] \in Stalled)

Slots == {"g1", "g2"}
Refs == 1..Len(DATASET)

\* C22 as stated: while one reference's decode never returns, every other
\* curve, the remaining references of the same slot included, is still
\* eventually emitted and delivered.
C22_StallDelaysOnlyOwnCurve ==
    \A slot \in Slots, k \in 1..MaxGen, r \in Refs :
        (ToLoad(slot, k, r, TRUE) \/ ToLoad(slot, k, r, FALSE)) ~> Enqueued(slot, k, r)

\* all the work no stalled decode holds back is done: every task has started,
\* every thread left is one whose decode stalls, every callback has been run
Quiet ==
    /\ \A th \in threads : StalledThread(th)
    /\ ticks = <<>>

\* C22 amended: a decode that stalls holds back its own curve and the
\* references stored after it in the same slot, and nothing else: every
\* other task runs to its end and every emitted callback is run by the owner
\* thread, again and again after each widget event; no reference stored
\* behind the stalled one is emitted; and the owner thread can handle a
\* widget event whenever one is due.
C22_StallBlocksOwnTaskOnly ==
    /\ []<>Quiet
    /\ [](\A slot \in Slots, k \in 1..MaxGen, r \in Refs :
             ToLoad(slot, k, r, TRUE) => ~Enqueued(slot, k, r))
    /\ []((events < budget /\ \E th \in threads : StalledThread(th))
             => ENABLED uptake_callback)

\* C22 witness: a decode stalls with a reference of its slot behind it,
\* while the other slot's task has finished and all its callbacks have run
C22_Witness ==
    /\ \E th \in threads : StalledThread(th) /\ Len(th.isos) > 1
    /\ Cardinality(threads) = 1
    /\ ticks = <<>>
    /\ \E i \in 1..Len(g2_iso_sel) : g2_iso_sel[i].label = "median"
    /\ \E i \in 1..Len(g1_iso_sel) : g1_iso_sel[i].label = "median"

\* the value the overlay shows for the axis ("x" or "y") of family f ("K",
\* "L", "W") of snapshot row index: the snapshot's value, or 0 when the
\* family has a missing value in the row
Shown(f, axis, index) ==
    IF IsNaN(data[f \o "_x"][index]) \/ IsNaN(data[f \o "_y"][index]) THEN 0
    ELSE data[f \o "_" \o axis][index]

Families == {"K", "L", "W"}

\* C23: the overlay lists the selected rows in selection order: whenever the
\* last handler completed, every overlay column has two entries per selected
\* index, and entries 2i-1 and 2i of the label column, of the value columns
\* and of the segment columns (at their anchored end) are those of the i-th
\* selected index, after the full overlay and after both scoped overlays.
C23_SelectionOrder ==
    ~raised =>
        /\ \A c \in ErrCols : Len(errors[c]) = 2 * Len(selected)
        /\ \A i \in 1..Len(selected), f \in Families :
              LET index == selected[i]
                  x     == Shown(f, "x", index)
                  y     == Shown(f, "y", index)
              IN  /\ Pair("labels", i) = <<data.labels[index], data.labels[index]>>
                  /\ Pair(f \o "_x", i) = <<x, x>>
                  /\ Pair(f \o "_y", i) = <<y, y>>
                  /\ errors[f \o "_x0"][2 * i] = x
                  /\ errors[f \o "_x1"][2 * i] = x
                  /\ errors[f \o "_y0"][2 * i - 1] = y
                  /\ errors[f \o "_y1"][2 * i - 1] = y

\* C23 witness: two rows selected in descending index order, with different
\* values, and both scoped overlays regenerated since
C23_Witness ==
    /\ ~raised
    /\ Len(selected) = 2
    /\ selected[1] > selected[2]
    /\ lp # Unit \div 2
    /\ <<p1, p2>> # <<Unit \div 2, 5 * Unit>>
    /\ errors.L_x[1] # errors.L_x[3]
    /\ errors.W_x[1] # errors.W_x[3]
    /\ errors.labels[1] = data.labels[selected[1]]

\* the cached error of family f on the axis ("x": adsorbate 1, "y":
\* adsorbate 2) for material mat under the current pressure parameters
CachedError(f, axis, mat) ==
    IF f = "K" THEN dfs[axis][mat]["kH"].err
    ELSE IF f = "L" THEN dfs[axis][mat][Fmt(lp)].err
    ELSE dfs[axis][mat][Fmt(p1)].err + dfs[axis][mat][Fmt(p2)].err

\* the two entries pr are the two points a and b, in either order
Segment(pr, a, b) == pr = <<a, b>> \/ pr = <<b, a>>

\* C24: for a selected row with both values of a family present, the
\* overlay holds for each axis the segment between value - error and value
\* and the segment between value and value + error, error being the cached
\* error of the axis and, for working capacity, the sum of the cached errors
\* at the two boundary pressures.
C24_Segments ==
    (~raised /\ dfs # NoneRec) =>
        \A i \in 1..Len(selected), f \in Families, axis \in {"x", "y"} :
            LET index == selected[i]
                v     == data[f \o "_" \o axis][index]
                e     == CachedError(f, axis, data.labels[index])
            IN  (~IsNaN(data[f \o "_x"][index]) /\ ~IsNaN(data[f \o "_y"][index])) =>
                    /\ Segment(Pair(f \o "_" \o axis \o "0", i), v - e, v)
                    /\ Segment(Pair(f \o "_" \o axis \o "1", i), v, v + e)

\* C24 witness: a selected row with all values present whose
\* working-capacity segments were regenerated for a range with a non-zero
\* cached error at each boundary
C24_Witness ==
    /\ ~raised
    /\ dfs # NoneRec
    /\ <<p1, p2>> # <<Unit \div 2, 5 * Unit>>
    /\ \E i \in 1..Len(selected) :
          LET index == selected[i]
              mat   == data.labels[index]
          IN  /\ \A f \in Families :
                    ~IsNaN(data[f \o "_x"][index]) /\ ~IsNaN(data[f \o "_y"][index])
              /\ dfs.x[mat][Fmt(p1)].err > 0
              /\ dfs.x[mat][Fmt(p2)].err > 0
              /\ Pair("W_x0", i) = <<data.W_x[index] - CachedError("W", "x", mat), data.W_x[index]>>

\* the fences Q1 - 1.5 IQR and Q3 + 1.5 IQR of the non-missing samples of s
Fences(s) ==
    LET a  == sorted(Present(s))
        Q1 == percentile(a, 25)
        Q3 == percentile(a, 75)
    IN  <<Q1 - (3 * (Q3 - Q1)) \div 2, Q3 + (3 * (Q3 - Q1)) \div 2>>

\* the samples the outlier rejection of stats() lets through: those above
\* the lower fence (the samples at or below it are the rejected ones)
Survivors(s) == SelectSeq(Present(s), LAMBDA x : x > Fences(s)[1])

\* C25: the count is the number of non-missing samples before outlier
\* rejection: for more than 4 samples of which some are rejected, the count
\* still includes the rejected samples, while median and error are those of
\* the survivors only (NaN when no sample survives).
C25_CountBeforeRejection ==
    result # NoneRec =>
        /\ result.size = Cardinality(NonMissing(series))
        /\ (result.size > 4 /\ Len(Survivors(series)) < result.size) =>
              IF Survivors(series) = <<>>
              THEN IsNaN(result.med) /\ IsNaN(result.err)
              ELSE /\ result.med = median(Survivors(series))
                   /\ result.err = std(Survivors(series))

\* C25 witness: five samples of which four are rejected: the count is 5 and
\* the median is the one survivor
C25_Witness ==
    /\ result # NoneRec
    /\ result.size = 5
    /\ Len(Survivors(series)) = 1
    /\ result.med = Survivors(series)[1]
    /\ \E i \in 1..Len(series) : series[i] # result.med

\* the overlay generated from scratch for the current selection, snapshot
\* and pressure parameters (no cache: nothing can be generated)
FullOverlay ==
    IF selected = <<>> \/ dfs = NoneRec
    THEN gen_error_none
    ELSE gen_error(dfs, data, lp, p1, p2, selected)

\* C26: in every reachable state the overlay equals the overlay generated
\* from scratch for the current selection, snapshot and pressure parameters,
\* and it is empty when the selection is empty.
C26_OverlayIsFull ==
    /\ selected = <<>> => errors = gen_error_none
    /\ selected # <<>> => (dfs # NoneRec /\ errors = FullOverlay)

\* C26 restricted to the states with a cache: there the overlay is the full
\* overlay after every event
C26_OverlayIsFullCached ==
    dfs # NoneRec => errors = FullOverlay

\* a state C26_OverlayIsFullCached is about: a selection whose overlay went
\* through an uptake-pressure and a working-capacity regeneration
C26_Patched ==
    /\ dfs # NoneRec
    /\ Len(selected) = 2
    /\ lp # 1 * Unit
    /\ <<p1, p2>> # <<Unit \div 2, 5 * Unit>>
    /\ errors.L_x0 # errors.L_x
    /\ errors.W_x0 # errors.W_x

\* the median curves emitted so far: those waiting in the callback queue and
\* those applied to a curve set
Medians ==
    {ticks[i].iso : i \in {j \in 1..Len(ticks) : ticks[j].iso.label = "median"}}
        \cup {c \in AllCurves : c.label = "median"}

\* the pressure sequence of a median curve is 0, 0.5, 1.0, ...
HalfSteps(c) == \A i \in 1..Len(c.x) : c.x[i] = (i - 1) * (Unit \div 2)

\* C27: every synthesized median curve has the pressure sequence 0, 0.5,
\* 1.0, ... in 0.5 increments, with as many points as its loading sequence.
C27_MedianPairs ==
    \A c \in Medians : HalfSteps(c) /\ Len(c.x) = Len(c.y)

\* the part of C27 about the increments, and what the lengths are: one more
\* pressure point than loading values
C27_MedianSteps ==
    \A c \in Medians : HalfSteps(c) /\ Len(c.x) = Len(c.y) + 1

\* a state C27_MedianSteps is about: a median curve applied to a curve set
C27_Applied ==
    \E c \in AllCurves : c.label = "median" /\ c.y # <<>>

====
